---- MODULE Spec2Model ----
(***************************************************************************)
(* MaixCamReceiver (src/main.py): a background thread decodes framed       *)
(* records from a serial byte stream and hands the newest one to a polling *)
(* caller through a lock-protected single slot.                            *)
(*                                                                         *)
(* Bytes are the integers 0..255; a byte string is a sequence of bytes.    *)
(***************************************************************************)
EXTENDS Integers, Sequences, FiniteSets, TLC

\* --------------------------------------------------------------- bounds
\* Number of distinct payloads the sender chooses from.
NumPayloads == 2
\* Calls of get_latest_data() the host makes at most.
MaxGets == 2
\* stop() calls the host makes at most.
MaxStops == 1
\* Transport faults (exceptions raised by ser.read) the environment injects.
MaxFaults == 1

\* ------------------------------------------------------ protocol constants
SOF == <<170, 85>>
EOF == <<85, 170>>
PAYLOAD_SIZE == 16
CHECKSUM_SIZE == 1
EXPECTED_PACKET_LEN == PAYLOAD_SIZE + CHECKSUM_SIZE

CRC8_TABLE ==
  << 0, 7, 14, 9, 28, 27, 18, 21, 56, 63, 54, 49, 36, 35, 42, 45,
     112, 119, 126, 121, 108, 107, 98, 101, 72, 79, 70, 65, 84, 83, 90, 93,
     224, 231, 238, 233, 252, 251, 242, 245, 216, 223, 214, 209, 196, 195, 202, 205,
     144, 151, 158, 153, 140, 139, 130, 133, 168, 175, 166, 161, 180, 179, 186, 189,
     199, 192, 201, 206, 219, 220, 213, 210, 255, 248, 241, 246, 227, 228, 237, 234,
     183, 176, 185, 190, 171, 172, 165, 162, 143, 136, 129, 134, 147, 148, 157, 154,
     39, 32, 41, 46, 59, 60, 53, 50, 31, 24, 17, 22, 3, 4, 13, 10,
     87, 80, 89, 94, 75, 76, 69, 66, 111, 104, 97, 102, 115, 116, 125, 122,
     137, 142, 135, 128, 149, 146, 155, 156, 177, 182, 191, 184, 173, 170, 163, 164,
     249, 254, 247, 240, 229, 226, 235, 236, 193, 198, 207, 200, 221, 218, 211, 212,
     105, 110, 103, 96, 117, 114, 123, 124, 81, 86, 95, 88, 77, 74, 67, 68,
     25, 30, 23, 16, 5, 2, 11, 12, 33, 38, 47, 40, 61, 58, 51, 52,
     78, 73, 64, 71, 82, 85, 92, 91, 118, 113, 120, 127, 106, 109, 100, 99,
     62, 57, 48, 55, 34, 37, 44, 43, 6, 1, 8, 15, 26, 29, 20, 19,
     174, 169, 160, 167, 178, 181, 188, 187, 150, 145, 152, 159, 138, 141, 132, 131,
     222, 217, 208, 215, 194, 197, 204, 203, 230, 225, 232, 239, 250, 253, 244, 243 >>

\* ----------------------------------------------------------- byte helpers
RECURSIVE XorBits(_, _, _)
XorBits(a, b, n) ==
  IF n = 0 THEN 0
  ELSE ((a + b) % 2) + 2 * XorBits(a \div 2, b \div 2, n - 1)

\* Python's a ^ b on two bytes.
Xor(a, b) == XorBits(a, b, 8)

\* s[from..to] as Python's slice s[from-1:to].
Slice(s, from, to) == SubSeq(s, from, to)

\* ------------------------------------------------------- _calculate_crc8
RECURSIVE CrcFrom(_, _, _)
CrcFrom(crc, data_bytes, i) ==
  IF i > Len(data_bytes) THEN crc
  ELSE CrcFrom(CRC8_TABLE[Xor(crc, data_bytes[i]) + 1], data_bytes, i + 1)

\* A checksum that starts from 0xFF.
calculate_crc8_from_ff(data_bytes) == CrcFrom(255, data_bytes, 1)

calculate_crc8(data_bytes) == CrcFrom(0, data_bytes, 1)

\* ----------------------------------------- struct.unpack('<4HQ', payload)
\* A 16-bit field read high byte first.
UnpackHBigEndian(b, o) == 256 * b[o] + b[o + 1]

\* One little-endian unsigned 16-bit field starting at 1-based offset o.
UnpackH(b, o) == b[o] + 256 * b[o + 1]

\* An unsigned 64-bit value does not fit TLC's 32-bit integers: it is kept
\* as four base-1000000 limbs, least significant first (so 1700000000000 is
\* <<0, 700000, 1, 0>>).  MulAdd(limbs, m, c) is limbs * m + c.
LimbBase == 1000 * 1000

RECURSIVE MulAddFrom(_, _, _, _)
MulAddFrom(limbs, m, c, i) ==
  IF i > Len(limbs) THEN <<>>
  ELSE LET v == limbs[i] * m + c
       IN <<v % LimbBase>> \o MulAddFrom(limbs, m, v \div LimbBase, i + 1)

MulAdd(limbs, m, c) == MulAddFrom(limbs, m, c, 1)

\* Horner evaluation of the 8 bytes b[o..o+7]: b[o+k] + 256 * (value of the
\* bytes above it).
RECURSIVE HornerQ(_, _, _)
HornerQ(b, o, k) ==
  IF k > 7 THEN <<0, 0, 0, 0>>
  ELSE MulAdd(HornerQ(b, o, k + 1), 256, b[o + k])

UnpackQ(b, o) == HornerQ(b, o, 0)

\* The dictionary built from the unpacked tuple.
Unpack(payload_bytes) ==
  [x |-> UnpackH(payload_bytes, 1),
   y |-> UnpackH(payload_bytes, 3),
   w |-> UnpackH(payload_bytes, 5),
   h |-> UnpackH(payload_bytes, 7),
   timestamp |-> UnpackQ(payload_bytes, 9)]

\* ------------------------------------------------------------ the sender
\* The 16 payload bytes the sender chooses from.  Payload 1 is x=100, y=200,
\* w=50, h=60, timestamp=1700000000000; payload 2 holds the start marker, a
\* length byte of 17 and the end marker inside its data.
Payload(i) ==
  IF i = 1 THEN <<100, 0, 200, 0, 50, 0, 60, 0, 0, 104, 229, 207, 139, 1, 0, 0>>
  ELSE IF i = 2 THEN <<170, 85, 17, 0, 85, 170, 170, 85, 85, 17, 170, 85, 170, 85, 170, 85>>
  ELSE [k \in 1..PAYLOAD_SIZE |-> (i * 37 + k * 11) % 256]

Pow2(n) == IF n = 0 THEN 1 ELSE IF n = 1 THEN 2 ELSE IF n = 2 THEN 4
           ELSE IF n = 3 THEN 8 ELSE IF n = 4 THEN 16 ELSE IF n = 5 THEN 32
           ELSE IF n = 6 THEN 64 ELSE 128

\* payload with bit number bit (0..127, bit 0 = lowest bit of byte 1) inverted.
FlipBit(payload, bit) ==
  [k \in 1..Len(payload) |->
     IF k = (bit \div 8) + 1 THEN Xor(payload[k], Pow2(bit % 8)) ELSE payload[k]]

\* The wire image of a frame: start marker, length, payload, checksum, end marker.
Frame(len, payload, crc, eof) == SOF \o <<len>> \o payload \o <<crc>> \o eof

ValidFrame(payload) ==
  Frame(EXPECTED_PACKET_LEN, payload, calculate_crc8(payload), EOF)

\* CRC-8 bit by bit, as a sender without the table computes it: the byte is
\* XORed into the register, then eight times the register is shifted left by
\* one bit and, if a 1 was shifted out, XORed with the polynomial 0x07.
ShiftStep(reg) ==
  IF reg >= 128 THEN Xor((2 * reg) % 256, 7) ELSE 2 * reg

RECURSIVE ShiftSteps(_, _)
ShiftSteps(reg, n) == IF n = 0 THEN reg ELSE ShiftSteps(ShiftStep(reg), n - 1)

\* The register after the eight steps, for every value it can start from.
BitTable == [reg \in 0..255 |-> ShiftSteps(reg, 8)]

RECURSIVE BitCrcFrom(_, _, _)
BitCrcFrom(reg, data, i) ==
  IF i > Len(data) THEN reg
  ELSE BitCrcFrom(BitTable[Xor(reg, data[i])], data, i + 1)

BitCrc(data) == BitCrcFrom(0, data, 1)

\* What the sender writes for one script segment.  A "sum" segment carries
\* its 16 payload bytes itself (p); its checksum byte is the bitwise CRC-8 of
\* the payload plus arg.
SegBytes(seg) ==
  LET pl == Payload(seg.p) IN
  CASE seg.kind = "valid"  -> ValidFrame(pl)
    [] seg.kind = "flip"   ->
         Frame(EXPECTED_PACKET_LEN, FlipBit(pl, seg.arg), calculate_crc8(pl), EOF)
    [] seg.kind = "badlen" -> Frame(seg.arg, pl, calculate_crc8(pl), EOF)
    [] seg.kind = "badeof" -> Frame(EXPECTED_PACKET_LEN, pl, calculate_crc8(pl), <<85, seg.arg>>)
    [] seg.kind = "trunc"  -> Slice(ValidFrame(pl), 1, seg.arg)
    [] seg.kind = "noise"  -> <<seg.arg>>
    [] seg.kind = "sum"    ->
         Frame(EXPECTED_PACKET_LEN, seg.p, (BitCrc(seg.p) + seg.arg) % 256, EOF)

Seg(kind, p, arg) == [kind |-> kind, p |-> p, arg |-> arg]

\* Bytes in a whole frame, and in the segment seg.
FrameLen == Len(SOF) + 1 + EXPECTED_PACKET_LEN + Len(EOF)
SegLen(seg) ==
  IF seg.kind = "trunc" THEN seg.arg ELSE IF seg.kind = "noise" THEN 1 ELSE FrameLen

\* ------------------------------------------------------------------ state
VARIABLES
  ser,          \* self.ser: "none" (None), "open" or "closed"
  is_running,   \* self.is_running
  thread,       \* self.thread: 0 (None) or the index in loops of the Thread
  lock,         \* self.lock: "free", "caller" or "loop"
  latest_data,  \* self.latest_data: <<>> (None) or <<record>>
  loops,        \* one entry per Thread started: its place in _read_loop, and
                \* (history, where cap.life is set) the number of reads it
                \* made while is_running was False
  caller,       \* the host thread: the method it is in, and its locals
  script,       \* what the sender is going to write, segment by segment
  sent,         \* segments of script written so far
  wire,         \* bytes received by the port and not yet read
  cap,          \* how many start/stop/get calls and read faults may happen,
                \* and whether the lifecycle history is kept
  calls,        \* how many start/stop/get calls and read faults have happened
  start_ret,    \* history: value returned by the last start(), <<>> before any
  stopped,      \* history: a stop() has returned and no start() succeeded since
  rets,         \* history: every get_latest_data() result, the publication it
                \* came from and the number of publications made by then
  pubs,         \* history: every record _read_loop stored into the slot
  slot_pub,     \* history: index in pubs of the record held in the slot, or 0
  log           \* history: every write of the sender ("send") and the outcome
                \* of every frame attempt of _read_loop, in order; where
                \* cap.life is set also every stop() entered ("stop"), every
                \* exception _read_loop caught ("fatal", "error") and every
                \* return of _read_loop ("exit")

vars == <<ser, is_running, thread, lock, latest_data, loops, caller, script,
          sent, wire, cap, calls, start_ret, stopped, rets, pubs, slot_pub, log>>

hostVars == <<ser, is_running, thread, caller, start_ret, stopped, rets>>
lineVars == <<script, cap, sent, wire>>

None == <<>>

\* The log with the lifecycle event e, where the lifecycle history is kept.
Noted(e) == IF cap.life THEN Append(log, e) ELSE log

\* __init__ (lines 53-60), before any byte is on the line.
InitFields ==
  /\ ser = "none"
  /\ is_running = FALSE
  /\ thread = 0
  /\ lock = "free"
  /\ latest_data = None
  /\ loops = <<>>
  /\ caller = [pc |-> "idle", data_to_return |-> None, taken_pub |-> 0]
  /\ sent = 0
  /\ wire = <<>>
  /\ calls = [starts |-> 0, stops |-> 0, gets |-> 0, faults |-> 0]
  /\ start_ret = <<>>
  /\ stopped = FALSE
  /\ rets = <<>>
  /\ pubs = <<>>
  /\ slot_pub = 0
  /\ log = <<>>

\* ------------------------------------------------------------------ start
\* serial.Serial(...) succeeded: the port is open (its input buffer empty),
\* the flag is set and a new Thread runs _read_loop from sync_state = 0.
StartOk ==
  /\ caller.pc = "idle"
  /\ calls.starts < cap.starts
  /\ ser' = "open"
  /\ is_running' = TRUE
  /\ loops' = Append(loops, [pc |-> "head", sync_state |-> 0, unpacked_data |-> None,
                              late |-> 0])
  /\ thread' = Len(loops) + 1
  /\ wire' = <<>>
  /\ start_ret' = <<TRUE>>
  /\ stopped' = FALSE
  /\ calls' = [calls EXCEPT !.starts = @ + 1]
  /\ UNCHANGED <<lock, latest_data, caller, script, cap, sent, rets, pubs, slot_pub, log>>

\* A start() that sets the flag before it opens the port.
StartFailFlagSet ==
  /\ caller.pc = "idle"
  /\ calls.starts < cap.starts
  /\ start_ret' = <<FALSE>>
  /\ is_running' = TRUE
  /\ calls' = [calls EXCEPT !.starts = @ + 1]
  /\ UNCHANGED <<ser, thread, lock, latest_data, loops, caller,
                 script, cap, sent, wire, stopped, rets, pubs, slot_pub, log>>

\* serial.Serial(...) raised SerialException: the except clause returns False.
StartFail ==
  /\ caller.pc = "idle"
  /\ calls.starts < cap.starts
  /\ start_ret' = <<FALSE>>
  /\ calls' = [calls EXCEPT !.starts = @ + 1]
  /\ UNCHANGED <<ser, is_running, thread, lock, latest_data, loops, caller,
                 script, cap, sent, wire, stopped, rets, pubs, slot_pub, log>>

\* ------------------------------------------------------------------- stop
\* line 85
StopSignal ==
  /\ caller.pc = "idle"
  /\ calls.stops < cap.stops
  /\ is_running' = FALSE
  /\ caller' = [caller EXCEPT !.pc = "join"]
  /\ calls' = [calls EXCEPT !.stops = @ + 1]
  /\ log' = Noted("stop")
  /\ UNCHANGED <<ser, thread, lock, latest_data, loops, script, cap, sent, wire,
                 start_ret, stopped, rets, pubs, slot_pub>>

\* A join() that does not wait.
JoinedNoWait(t) == TRUE

\* Thread.join() returns once the thread's function has returned.
Joined(t) == loops[t].pc = "done"

\* lines 86-87
StopJoin ==
  /\ caller.pc = "join"
  /\ thread # 0 => Joined(thread)
  /\ caller' = [caller EXCEPT !.pc = "close"]
  /\ UNCHANGED <<ser, is_running, thread, lock, latest_data, loops, script, cap, sent,
                 wire, calls, start_ret, stopped, rets, pubs, slot_pub, log>>

\* A stop() that leaves the port as it is.
ClosedSkipped(s) == s

\* lines 88-89: the port after `if self.ser and self.ser.is_open: close()`.
Closed(s) == IF s = "open" THEN "closed" ELSE s

\* lines 88-89
StopClose ==
  /\ caller.pc = "close"
  /\ ser' = Closed(ser)
  /\ caller' = [caller EXCEPT !.pc = "idle"]
  /\ stopped' = TRUE
  /\ UNCHANGED <<is_running, thread, lock, latest_data, loops, script, cap, sent,
                 wire, calls, start_ret, rets, pubs, slot_pub, log>>

\* -------------------------------------------------------- get_latest_data
\* A with statement that does not exclude anybody.
LockFreeAlways == TRUE

\* `with self.lock:` is entered only while nobody holds the lock.
LockFree == lock = "free"

\* line 99
GetAcquire ==
  /\ caller.pc = "idle"
  /\ calls.gets < cap.gets
  /\ LockFree
  /\ lock' = "caller"
  /\ caller' = [caller EXCEPT !.pc = "g_read"]
  /\ calls' = [calls EXCEPT !.gets = @ + 1]
  /\ UNCHANGED <<ser, is_running, thread, latest_data, loops, script, cap, sent, wire,
                 start_ret, stopped, rets, pubs, slot_pub, log>>

\* line 100
GetRead ==
  /\ caller.pc = "g_read"
  /\ caller' = [caller EXCEPT !.pc = "g_clear", !.data_to_return = latest_data,
                              !.taken_pub = slot_pub]
  /\ UNCHANGED <<ser, is_running, thread, lock, latest_data, loops, script, cap, sent,
                 wire, calls, start_ret, stopped, rets, pubs, slot_pub, log>>

\* A read that leaves the record in the slot.
ConsumedKept(slot) == slot

\* What line 101 leaves in the slot.
Consumed(slot) == None

\* lines 101-102: clear, return (leaving the with block releases the lock).
GetClear ==
  /\ caller.pc = "g_clear"
  /\ latest_data' = Consumed(latest_data)
  /\ slot_pub' = IF latest_data' = None THEN 0 ELSE slot_pub
  /\ lock' = "free"
  /\ rets' = Append(rets, [val |-> caller.data_to_return, pub |-> caller.taken_pub,
                           seen |-> Len(pubs)])
  /\ caller' = [caller EXCEPT !.pc = "idle", !.data_to_return = None, !.taken_pub = 0]
  /\ UNCHANGED <<ser, is_running, thread, loops, script, cap, sent, wire, calls,
                 start_ret, stopped, pubs, log>>

\* -------------------------------------------------------------- ser.read
Min(a, b) == IF a < b THEN a ELSE b

\* self.ser.read(n) with timeout=1: n bytes as soon as n are there, otherwise
\* whatever has arrived when the timeout ends (possibly nothing).
ReadData(n) == Slice(wire, 1, Min(n, Len(wire)))
ReadRest(n) == Slice(wire, Min(n, Len(wire)) + 1, Len(wire))

\* ------------------------------------------------------------- _read_loop
\* A loop is at "head" (the while test), "try" (top of the try block), "len"
\* (line 125, reached from line 118 in the same iteration), "body" (line 138),
\* "lock" (waiting at line 166), "store" (inside the with block) or "done".
AtRead(t) ==
  \/ loops[t].pc \in {"len", "body"}
  \/ loops[t].pc = "try"

Goto(t, pc, st) == [loops EXCEPT ![t].pc = pc, ![t].sync_state = st]

\* ls, with a read by loop t counted if it was made with the flag cleared.
AfterRead(t, ls) ==
  [ls EXCEPT ![t].late = IF cap.life /\ ~is_running THEN @ + 1 ELSE @]

\* An abort that forgets to reset sync_state.
AbortKeepState(t) == [loops EXCEPT ![t].pc = "head"]

\* `sync_state = 0; continue` (lines 127-128, 134-135, 144-145, 155-156).
Abort(t) == Goto(t, "head", 0)

\* `while True:`, a loop that never tests the flag.
LoopHeadForever(t) ==
  /\ loops[t].pc = "head"
  /\ loops' = [loops EXCEPT ![t].pc = "try"]
  /\ UNCHANGED <<hostVars, lineVars, lock, latest_data, calls, pubs, slot_pub, log>>

\* line 108
LoopHead(t) ==
  /\ loops[t].pc = "head"
  /\ loops' = [loops EXCEPT ![t].pc = IF is_running THEN "try" ELSE "done"]
  /\ log' = IF is_running THEN log ELSE Noted("exit")
  /\ UNCHANGED <<hostVars, lineVars, lock, latest_data, calls, pubs, slot_pub>>

\* A second-marker check that takes a 0xAA it fails on as a new first byte.
SyncNextRetest(sync_state, byte) ==
  IF byte = <<SOF[1]>> THEN 1
  ELSE IF sync_state = 1 /\ byte = <<SOF[2]>> THEN 2
  ELSE 0

\* lines 111-120: the state after the marker byte read in state 0 or 1.
SyncNext(sync_state, byte) ==
  IF sync_state = 0
    THEN (IF byte = <<SOF[1]>> THEN 1 ELSE 0)
    ELSE (IF byte = <<SOF[2]>> THEN 2 ELSE 0)

\* lines 111-123: one marker byte; only state 2 goes on to the length read.
SyncStep(t) ==
  /\ loops[t].pc = "try"
  /\ loops[t].sync_state \in {0, 1}
  /\ ser = "open"
  /\ LET byte == ReadData(1)
         st == SyncNext(loops[t].sync_state, byte)
     IN /\ wire' = ReadRest(1)
        /\ loops' = AfterRead(t, Goto(t, IF st = 2 THEN "len" ELSE "head", st))
        /\ log' = IF loops[t].sync_state = 1 /\ st = 0 THEN Append(log, "sof2") ELSE log
  /\ UNCHANGED <<hostVars, script, cap, sent, lock, latest_data, calls, pubs, slot_pub>>

\* lines 126-135: what the length read leads to.
LenCheck(len_byte) ==
  IF len_byte = <<>> THEN "nolen"
  ELSE IF len_byte[1] # EXPECTED_PACKET_LEN THEN "len"
  ELSE "ok"

\* lines 123-135
ReadLen(t) ==
  /\ \/ loops[t].pc = "len"
     \/ loops[t].pc = "try" /\ loops[t].sync_state = 2
  /\ ser = "open"
  /\ LET len_byte == ReadData(1)
         res == LenCheck(len_byte)
     IN /\ wire' = ReadRest(1)
        /\ loops' = AfterRead(t, IF res = "ok" THEN Goto(t, "body", 2) ELSE Abort(t))
        /\ log' = IF res = "ok" THEN log ELSE Append(log, res)
  /\ UNCHANGED <<hostVars, script, cap, sent, lock, latest_data, calls, pubs, slot_pub>>

\* A body check whose checksum covers the checksum byte too.
BodyCheckCrcOverAll(full_packet_data) ==
  LET packet_len == EXPECTED_PACKET_LEN
      packet_data == Slice(full_packet_data, 1, packet_len)
      eof_data == Slice(full_packet_data, packet_len + 1, Len(full_packet_data))
      received_checksum == packet_data[packet_len]
  IN IF Len(full_packet_data) # packet_len + Len(EOF) THEN "short"
     ELSE IF eof_data # EOF THEN "eof"
     ELSE IF received_checksum = calculate_crc8(packet_data) THEN "ok"
     ELSE "crc"

\* A body check that does not compare the checksum.
BodyCheckNoCrc(full_packet_data) ==
  LET packet_len == EXPECTED_PACKET_LEN
      eof_data == Slice(full_packet_data, packet_len + 1, Len(full_packet_data))
  IN IF Len(full_packet_data) # packet_len + Len(EOF) THEN "short"
     ELSE IF eof_data # EOF THEN "eof"
     ELSE "ok"

\* A body check that does not compare the end marker.
BodyCheckNoEof(full_packet_data) ==
  LET packet_len == EXPECTED_PACKET_LEN
      packet_data == Slice(full_packet_data, 1, packet_len)
      payload_bytes == Slice(packet_data, 1, packet_len - CHECKSUM_SIZE)
      received_checksum == packet_data[packet_len]
  IN IF Len(full_packet_data) # packet_len + Len(EOF) THEN "short"
     ELSE IF received_checksum = calculate_crc8(payload_bytes) THEN "ok"
     ELSE "crc"

\* lines 141-163: what the body read leads to (packet_len is 17 here).
BodyCheck(full_packet_data) ==
  LET packet_len == EXPECTED_PACKET_LEN
      packet_data == Slice(full_packet_data, 1, packet_len)
      eof_data == Slice(full_packet_data, packet_len + 1, Len(full_packet_data))
      payload_bytes == Slice(packet_data, 1, packet_len - CHECKSUM_SIZE)
      received_checksum == packet_data[packet_len]
  IN IF Len(full_packet_data) # packet_len + Len(EOF) THEN "short"
     ELSE IF eof_data # EOF THEN "eof"
     ELSE IF received_checksum = calculate_crc8(payload_bytes) THEN "ok"
     ELSE "crc"

\* lines 138-179, up to the with statement
ReadBody(t) ==
  /\ loops[t].pc = "body"
  /\ ser = "open"
  /\ LET full_packet_data == ReadData(EXPECTED_PACKET_LEN + Len(EOF))
         res == BodyCheck(full_packet_data)
     IN /\ wire' = ReadRest(EXPECTED_PACKET_LEN + Len(EOF))
        /\ loops' = AfterRead(t,
                      IF res = "ok"
                        THEN [loops EXCEPT ![t].pc = "lock",
                                ![t].unpacked_data =
                                   <<Unpack(Slice(full_packet_data, 1, PAYLOAD_SIZE))>>]
                        ELSE IF res = "crc" THEN Goto(t, "head", 0) ELSE Abort(t))
        /\ log' = Append(log, res)
  /\ UNCHANGED <<hostVars, script, cap, sent, lock, latest_data, calls, pubs, slot_pub>>

\* line 166
StoreAcquire(t) ==
  /\ loops[t].pc = "lock"
  /\ LockFree
  /\ lock' = "loop"
  /\ loops' = [loops EXCEPT ![t].pc = "store"]
  /\ UNCHANGED <<hostVars, lineVars, latest_data, calls, pubs, slot_pub, log>>

\* A store that keeps an unread record instead of overwriting it.
PublishedIfEmpty(slot, unpacked_data) == IF slot = None THEN unpacked_data ELSE slot

\* What lines 167-173 leave in the slot that held `slot`.
Published(slot, unpacked_data) == unpacked_data

\* A store after which sync_state is not reset.
StoreWriteKeepsState(t) ==
  /\ loops[t].pc = "store"
  /\ latest_data' = Published(latest_data, loops[t].unpacked_data)
  /\ pubs' = Append(pubs, loops[t].unpacked_data[1])
  /\ slot_pub' = IF latest_data' = loops[t].unpacked_data THEN Len(pubs) + 1 ELSE slot_pub
  /\ lock' = "free"
  /\ loops' = [loops EXCEPT ![t].pc = "head", ![t].unpacked_data = None]
  /\ UNCHANGED <<hostVars, lineVars, calls, log>>

\* lines 167-179
StoreWrite(t) ==
  /\ loops[t].pc = "store"
  /\ latest_data' = Published(latest_data, loops[t].unpacked_data)
  /\ pubs' = Append(pubs, loops[t].unpacked_data[1])
  /\ slot_pub' = IF latest_data' = loops[t].unpacked_data THEN Len(pubs) + 1 ELSE slot_pub
  /\ lock' = "free"
  /\ loops' = [loops EXCEPT ![t].pc = "head", ![t].sync_state = 0,
                            ![t].unpacked_data = None]
  /\ UNCHANGED <<hostVars, lineVars, calls, log>>

\* A SerialException handled like any other exception: logged, loop goes on.
ReadRaiseKeepsRunning(t) ==
  /\ AtRead(t)
  /\ ser = "open"
  /\ calls.faults < cap.faults
  /\ calls' = [calls EXCEPT !.faults = @ + 1]
  /\ loops' = [loops EXCEPT ![t].pc = "head"]
  /\ log' = Noted("fatal")
  /\ UNCHANGED <<hostVars, lineVars, lock, latest_data, pubs, slot_pub>>

\* lines 181-183: a read raised serial.SerialException (the device went away,
\* or the port is not open).
ReadRaise(t) ==
  /\ AtRead(t)
  /\ IF ser = "open"
       THEN calls.faults < cap.faults /\ calls' = [calls EXCEPT !.faults = @ + 1]
       ELSE UNCHANGED calls
  /\ is_running' = FALSE
  /\ loops' = [loops EXCEPT ![t].pc = "head"]
  /\ log' = Noted("fatal")
  /\ UNCHANGED <<ser, thread, caller, start_ret, stopped, rets, lineVars, lock,
                 latest_data, pubs, slot_pub>>

\* lines 184-185: a read raised some other exception.
ReadUnexpected(t) ==
  /\ AtRead(t)
  /\ ser = "open"
  /\ calls.faults < cap.faults
  /\ calls' = [calls EXCEPT !.faults = @ + 1]
  /\ loops' = [loops EXCEPT ![t].pc = "head"]
  /\ log' = Noted("error")
  /\ UNCHANGED <<hostVars, lineVars, lock, latest_data, pubs, slot_pub>>

\* ------------------------------------------------------------- the sender
\* The camera writes the next segment of its script to the line.
Send ==
  /\ sent < Len(script)
  /\ ser = "open"
  /\ wire' = wire \o SegBytes(script[sent + 1])
  /\ sent' = sent + 1
  /\ log' = Append(log, "send")
  /\ UNCHANGED <<hostVars, script, cap, lock, latest_data, loops, calls, pubs, slot_pub>>

\* --------------------------------------------------------- specifications
\* The Threads started so far.
Threads == 1..Len(loops)

Next ==
  \/ StartOk
  \/ StartFail
  \/ StopSignal
  \/ StopJoin
  \/ StopClose
  \/ GetAcquire
  \/ GetRead
  \/ GetClear
  \/ Send
  \/ \E t \in Threads : LoopHead(t)
  \/ \E t \in Threads : SyncStep(t)
  \/ \E t \in Threads : ReadLen(t)
  \/ \E t \in Threads : ReadBody(t)
  \/ \E t \in Threads : StoreAcquire(t)
  \/ \E t \in Threads : StoreWrite(t)
  \/ \E t \in Threads : ReadRaise(t)
  \/ \E t \in Threads : ReadUnexpected(t)

Payloads == 1..NumPayloads

Caps(starts, stops, gets, faults) ==
  [starts |-> starts, stops |-> stops, gets |-> gets, faults |-> faults,
   life |-> FALSE]

\* The same, with the lifecycle history kept.
LifeCaps(starts, stops, gets, faults) ==
  [starts |-> starts, stops |-> stops, gets |-> gets, faults |-> faults,
   life |-> TRUE]

\* The camera sends two valid frames; the host starts the receiver once (as
\* __main__ does), polls it and stops it in any order, and reads may fail.
Bursts == {<<Seg("valid", p, 0), Seg("valid", q, 0)>> : p \in Payloads, q \in Payloads}

Init ==
  /\ InitFields
  /\ script \in Bursts
  /\ cap = Caps(1, MaxStops, MaxGets, MaxFaults)

Spec == Init /\ [][Next]_vars

\* The line alone: the host starts the receiver and polls it, nothing stops
\* it and no read fails.
NextLine ==
  \/ StartOk
  \/ GetAcquire
  \/ GetRead
  \/ GetClear
  \/ Send
  \/ \E t \in Threads : LoopHead(t)
  \/ \E t \in Threads : SyncStep(t)
  \/ \E t \in Threads : ReadLen(t)
  \/ \E t \in Threads : ReadBody(t)
  \/ \E t \in Threads : StoreAcquire(t)
  \/ \E t \in Threads : StoreWrite(t)

\* One valid frame.
Singles == {<<Seg("valid", p, 0)>> : p \in Payloads}

\* A frame cut off after k bytes (k = 2: the start marker only), then a
\* valid frame.
Truncs ==
  {<<Seg("trunc", p, k), Seg("valid", q, 0)>> :
     p \in Payloads, k \in Len(SOF)..(FrameLen - 1), q \in Payloads}

\* A frame whose length byte is wrong, then a valid frame.
BadLengths == {0, EXPECTED_PACKET_LEN - 1, EXPECTED_PACKET_LEN + 1, 170, 255}
BadLens ==
  {<<Seg("badlen", p, l), Seg("valid", q, 0)>> :
     p \in Payloads, l \in BadLengths, q \in Payloads}

\* A frame whose end marker is wrong, then a valid frame.
BadEofs ==
  {<<Seg("badeof", p, e), Seg("valid", q, 0)>> :
     p \in Payloads, e \in {0, 85}, q \in Payloads}

\* A stray byte, then a valid frame.
Noises ==
  {<<Seg("noise", 1, b), Seg("valid", q, 0)>> : b \in {0, 85, 170}, q \in Payloads}

InitLine ==
  /\ InitFields
  /\ script \in Singles \cup Truncs \cup BadLens \cup BadEofs \cup Noises
  /\ cap = Caps(1, 0, MaxGets, 0)

SpecLine == InitLine /\ [][NextLine]_vars

\* A frame with one payload bit inverted, then the intact frame again.
PayloadBits == 0..(8 * PAYLOAD_SIZE - 1)
Flips ==
  {<<Seg("flip", p, bit), Seg("valid", p, 0)>> : p \in Payloads, bit \in PayloadBits}

InitFlip ==
  /\ InitFields
  /\ script \in Flips
  /\ cap = Caps(1, 0, MaxGets, 0)

SpecFlip == InitFlip /\ [][NextLine]_vars

\* The whole lifecycle without the polling: one valid frame on the line, a
\* start() that succeeds or fails, stop() at any time and more than once,
\* reads that fail.
NextLife ==
  \/ StartOk
  \/ StartFail
  \/ StopSignal
  \/ StopJoin
  \/ StopClose
  \/ Send
  \/ \E t \in Threads : LoopHead(t)
  \/ \E t \in Threads : SyncStep(t)
  \/ \E t \in Threads : ReadLen(t)
  \/ \E t \in Threads : ReadBody(t)
  \/ \E t \in Threads : StoreAcquire(t)
  \/ \E t \in Threads : StoreWrite(t)
  \/ \E t \in Threads : ReadRaise(t)
  \/ \E t \in Threads : ReadUnexpected(t)

InitLife ==
  /\ InitFields
  /\ script \in Singles
  /\ cap = LifeCaps(1, MaxStops + 1, 0, MaxFaults)

\* A step of a decode loop other than the body read and other than an
\* exception raised by a read.
LoopStep(t) ==
  \/ LoopHead(t)
  \/ SyncStep(t)
  \/ ReadLen(t)
  \/ StoreAcquire(t)
  \/ StoreWrite(t)

\* A decode loop is at the body read of line 138, which returns whatever the
\* line holds: ReadBody is enabled exactly here.
AtBody == \E t \in Threads : loops[t].pc = "body" /\ ser = "open"

\* The threads are scheduled: a decode loop that can take a step takes one
\* (every ser.read returns within its timeout of 1 s), and a caller inside
\* stop() goes on to its next statement.  The second conjunct is weak
\* fairness of the body read, written with AtBody for its enabling condition.
FairLife ==
  /\ WF_vars(\E t \in Threads : LoopStep(t))
  /\ ([]<>(~AtBody) \/ []<><<\E t \in Threads : ReadBody(t)>>_vars)
  /\ WF_vars(StopJoin)
  /\ WF_vars(StopClose)

SpecLife == InitLife /\ [][NextLife]_vars /\ FairLife

\* A valid frame, then a frame that fails a check: cut off, wrong length
\* byte, wrong end marker, or one payload bit inverted (the lowest and the
\* highest bit of the first and of the last payload byte).
EdgeBits == {0, 7, 8 * PAYLOAD_SIZE - 8, 8 * PAYLOAD_SIZE - 1}
FailingSegs ==
  {f[1] : f \in Truncs \cup BadLens \cup BadEofs}
    \cup {Seg("flip", q, bit) : q \in Payloads, bit \in EdgeBits}
ThenFailing == {<<Seg("valid", p, 0), f>> : p \in Payloads, f \in FailingSegs}

InitSlot ==
  /\ InitFields
  /\ script \in ThenFailing
  /\ cap = Caps(1, 0, MaxGets, 0)

SpecSlot == InitSlot /\ [][NextLine]_vars

\* Payloads that drive the checksum through every table entry: fifteen 0x00
\* and then b (the checksum is the table entry of b), and b and then fifteen
\* 0x00 (the entry of b, then fifteen more look-ups); and the payloads.
Bytes == 0..255
Zeros == [k \in 1..(PAYLOAD_SIZE - 1) |-> 0]
CrcInputs ==
  {Zeros \o <<b>> : b \in Bytes}
    \cup {<<b>> \o Zeros : b \in Bytes}
    \cup {Payload(p) : p \in Payloads}

\* One frame whose checksum byte is the bitwise CRC-8 of its payload, or that
\* value plus one.
CrcFrames == {<<Seg("sum", pl, d)>> : pl \in CrcInputs, d \in {0, 1}}

InitCrc ==
  /\ InitFields
  /\ script \in CrcFrames
  /\ cap = Caps(1, 0, 1, 0)

SpecCrc == InitCrc /\ [][NextLine]_vars

\* One valid frame whose payload is one of NumSamples byte patterns (the two
\* first are the sender's payloads), sixteen 0x00 or sixteen 0xFF.
NumSamples == 6
CodecInputs ==
  {Payload(i) : i \in 1..NumSamples}
    \cup {[k \in 1..PAYLOAD_SIZE |-> 0], [k \in 1..PAYLOAD_SIZE |-> 255]}
CodecFrames == {<<Seg("sum", pl, 0)>> : pl \in CodecInputs}

InitCodec ==
  /\ InitFields
  /\ script \in CodecFrames
  /\ cap = Caps(1, 0, MaxGets, 0)

SpecCodec == InitCodec /\ [][NextLine]_vars

\* TrainLen valid frames back to back, the host polling up to once per frame:
\* the same payload every time, or the payloads in rotation.
TrainLen == MaxGets + 1
Trains ==
  {[k \in 1..TrainLen |-> Seg("valid", p, 0)] : p \in Payloads}
    \cup {[k \in 1..TrainLen |-> Seg("valid", ((p + k) % NumPayloads) + 1, 0)] :
            p \in Payloads}

InitBurst ==
  /\ InitFields
  /\ script \in Trains
  /\ cap = Caps(1, 0, TrainLen, 0)

SpecBurst == InitBurst /\ [][NextLine]_vars

\* The host calls start() twice; it may poll and call stop() at any time.  One
\* valid frame is on the line and no read fails, except a read of the port
\* stop() has closed.
NextTwice ==
  \/ StartOk
  \/ StopSignal
  \/ StopJoin
  \/ StopClose
  \/ GetAcquire
  \/ GetRead
  \/ GetClear
  \/ Send
  \/ \E t \in Threads : LoopHead(t)
  \/ \E t \in Threads : SyncStep(t)
  \/ \E t \in Threads : ReadLen(t)
  \/ \E t \in Threads : ReadBody(t)
  \/ \E t \in Threads : StoreAcquire(t)
  \/ \E t \in Threads : StoreWrite(t)
  \/ \E t \in Threads : ReadRaise(t)

InitTwice ==
  /\ InitFields
  /\ script = <<Seg("valid", 1, 0)>>
  /\ cap = Caps(2, 1, 1, 0)

SpecTwice == InitTwice /\ [][NextTwice]_vars

\* ------------------------------------------------------------ the claims
InGet == caller.pc \in {"g_read", "g_clear"}
Storing == \E t \in Threads : loops[t].pc = "store"
AllDone == \A t \in Threads : loops[t].pc = "done"
Returned(i) == rets[i].val # None

\* C2: get_latest_data() consumes what it returns.  A call returns a record
\* only if that record was published after the previous call returned, so of
\* two consecutive calls with no publication in between the second returns
\* None, and no publication is returned by two calls; during the call the slot
\* is exactly what the call read.
C2_ConsumeOnRead ==
  /\ \A i \in 1..Len(rets) :
       Returned(i) => /\ rets[i].pub \in 1..Len(pubs)
                      /\ rets[i].val = <<pubs[rets[i].pub]>>
  /\ \A i \in 1..Len(rets), j \in 1..Len(rets) :
       (i < j /\ Returned(i) /\ Returned(j)) => rets[i].pub < rets[j].pub
  /\ \A i \in 1..(Len(rets) - 1) :
       Returned(i + 1) => rets[i + 1].pub > rets[i].seen
  /\ caller.pc = "g_clear" => caller.data_to_return = latest_data

\* A call returned a record and the next call, with nothing published in
\* between, returned None.
C2_Witness ==
  /\ Len(rets) >= 2
  /\ Returned(1)
  /\ ~Returned(2)
  /\ rets[1].seen = Len(pubs)

\* C3: the slot holds nothing or the newest publication, never an older one
\* and never more than one; a call that returns a record returns the newest
\* publication made by the time it returns, so a record overwritten before
\* it was taken is never returned.
C3_NewestOnly ==
  /\ latest_data # None =>
       /\ Len(pubs) > 0
       /\ latest_data = <<pubs[Len(pubs)]>>
       /\ slot_pub = Len(pubs)
  /\ \A i \in 1..Len(rets) :
       Returned(i) => /\ rets[i].pub = rets[i].seen
                      /\ rets[i].val = <<pubs[rets[i].seen]>>

\* Two different records were published between two calls: the call returned
\* the second, and the first was never returned.
C3_Witness ==
  /\ Len(pubs) = 2
  /\ pubs[1] # pubs[2]
  /\ \E i \in 1..Len(rets) : Returned(i) /\ rets[i].pub = 2
  /\ \A i \in 1..Len(rets) : rets[i].pub # 1

\* C4: the caller is never between acquiring and releasing the lock while a
\* decode loop is, the lock names who is inside, and what a call returns is
\* one whole published record.
C4_MutualExclusion ==
  /\ ~(InGet /\ Storing)
  /\ \A t \in Threads, u \in Threads :
       (loops[t].pc = "store" /\ loops[u].pc = "store") => t = u
  /\ lock = "caller" <=> InGet
  /\ lock = "loop" <=> Storing
  /\ \A i \in 1..Len(rets) :
       Returned(i) => \E k \in 1..Len(pubs) : rets[i].val = <<pubs[k]>>

\* The decode loop has a validated record and waits for the lock the caller
\* holds.
C4_Witness ==
  /\ InGet
  /\ \E t \in Threads : loops[t].pc = "lock"

\* C9: a start() that returns False changes neither the port, the flag, the
\* thread, the loops nor the slot.
C9_FailedStartChangesNothing ==
  [][(start_ret' = <<FALSE>> /\ calls'.starts # calls.starts) =>
       /\ ser' = ser
       /\ is_running' = is_running
       /\ thread' = thread
       /\ loops' = loops
       /\ latest_data' = latest_data]_vars

\* start() has returned False.
C9_Witness ==
  /\ start_ret = <<FALSE>>
  /\ calls.starts = 1
  /\ ~is_running
  /\ loops = <<>>

\* C10: the port is closed only after every decode loop has returned, stop()
\* reaches close() only with the flag cleared and the loops finished, and
\* after stop() has returned the loops are finished, the port is not open and
\* nothing is published.
C10_StopOrder ==
  /\ [](/\ ser = "closed" => AllDone
        /\ caller.pc = "close" => (~is_running /\ AllDone)
        /\ stopped => (~is_running /\ AllDone /\ ser # "open"))
  /\ [][stopped => pubs' = pubs]_vars
  /\ [][(stopped /\ stopped') => (latest_data' = latest_data \/ latest_data' = None)]_vars

\* stop() has returned after a running loop had published a record.
C10_Witness ==
  /\ stopped
  /\ ser = "closed"
  /\ Len(loops) = 1
  /\ Len(pubs) >= 1

\* ------------------------------------------------- the claims on the line
\* Bytes written by the sender so far, and bytes the loops have read.
RECURSIVE SentBytes(_)
SentBytes(n) == IF n = 0 THEN 0 ELSE SentBytes(n - 1) + SegLen(script[n])
ReadCount == SentBytes(sent) - Len(wire)

AllRead == sent = Len(script) /\ wire = <<>>

\* The attempts of the loops, without the sender's writes and the stop() calls.
IsAttempt(e) == e \notin {"send", "stop", "exit"}
Attempts == SelectSeq(log, IsAttempt)

\* The only loop is between attempts, awaiting the first start byte.
Resting ==
  /\ Len(loops) = 1
  /\ loops[1].pc \in {"head", "try"}
  /\ loops[1].sync_state = 0

\* The only loop holds a validated record it is about to store.
Publishing == Len(loops) = 1 /\ loops[1].pc \in {"lock", "store"}

\* The record of the script's last segment, a valid frame.
LastRecord == Unpack(Payload(script[Len(script)].p))

\* Every record stored, held or returned so far is rec, and it was stored at
\* most once.
OnlyRecord(rec) ==
  /\ pubs \in {<<>>, <<rec>>}
  /\ latest_data \in {None, <<rec>>}
  /\ \A i \in 1..Len(rets) : rets[i].val \in {None, <<rec>>}

\* Calls that returned a record, plus one if a record is in the slot.
Handed ==
  Cardinality({i \in 1..Len(rets) : Returned(i)})
    + (IF latest_data # None \/ caller.data_to_return # None THEN 1 ELSE 0)

\* C1: when one valid frame is all that is sent, its record is the only one
\* ever stored; once its 22 bytes are read the loop is storing it or is back
\* awaiting a start byte with it stored; and it is in the slot until exactly
\* one call returns it (a call returns what the slot holds).
C1_ValidFramePublishedOnce ==
  script \in Singles =>
    /\ OnlyRecord(LastRecord)
    /\ AllRead => (Publishing \/ (Resting /\ pubs = <<LastRecord>>))
    /\ Handed = Len(pubs)
    /\ caller.pc = "g_clear" => caller.data_to_return = latest_data

\* The frame whose payload holds 0xAA 0x55 0x11 was published, and the first
\* call after that returned its record.
C1_Witness ==
  /\ script = <<Seg("valid", 2, 0)>>
  /\ pubs = <<Unpack(Payload(2))>>
  /\ \E i \in 1..Len(rets) :
       /\ rets[i].val = <<Unpack(Payload(2))>>
       /\ \A j \in 1..(i - 1) : rets[j].seen = 0

\* C5: a frame with one payload bit inverted is read to its end, fails the
\* checksum and stores nothing, leaving the loop awaiting a start byte; the
\* intact frame sent after it is the only record ever stored, and is stored
\* once all bytes are read.
C5_CorruptedFrameDropped ==
  script \in Flips =>
    /\ OnlyRecord(LastRecord)
    /\ Attempts # <<>> => Attempts[1] = "crc"
    /\ ReadCount = FrameLen => (Resting /\ pubs = <<>> /\ Attempts = <<"crc">>)
    /\ AllRead => (Publishing \/ (Resting /\ pubs = <<LastRecord>>))

\* The frame with the highest bit of its last payload byte inverted was
\* dropped and the frame after it published.
C5_Witness ==
  /\ script \in Flips
  /\ script[1].arg = 8 * PAYLOAD_SIZE - 1
  /\ Attempts = <<"crc", "ok">>
  /\ pubs = <<LastRecord>>

\* C6 as stated: after a frame with a wrong length byte, the valid frame sent
\* right behind it (the next 0xAA 0x55 in the stream: payload 1 holds no
\* 0xAA) is published once all bytes are read.
C6_ResumesAtNextMarker ==
  (script \in BadLens /\ script[1].p = 1 /\ AllRead /\ Resting) =>
    pubs = <<LastRecord>>

\* C7: when the first attempt ends because the length read returned nothing
\* or the body read returned fewer than 19 bytes, nothing is stored for it,
\* the loop is back awaiting a start byte with every byte of the cut frame
\* read, it has not ended, and the valid frame sent afterwards is stored once
\* all bytes are read.
C7_ShortReadAborts ==
  (script \in Truncs /\ Attempts # <<>> /\ Attempts[1] \in {"nolen", "short"}) =>
    /\ OnlyRecord(LastRecord)
    /\ \A t \in Threads : loops[t].pc # "done"
    /\ ReadCount >= SegLen(script[1])
    /\ ReadCount = SegLen(script[1]) => (Resting /\ pubs = <<>>)
    /\ AllRead => (Publishing \/ (Resting /\ pubs = <<LastRecord>>))

\* A body read came back short, and the valid frame sent later was published.
C7_Witness ==
  /\ script \in Truncs
  /\ Attempts = <<"short", "ok">>
  /\ pubs = <<LastRecord>>

\* A framing or checksum error was found before the valid frame was written
\* to the line.
ErrorBeforeLastSend ==
  \E i \in 1..Len(log), j \in 1..Len(log) :
    /\ i < j
    /\ log[i] \in {"sof2", "nolen", "len", "short", "eof", "crc"}
    /\ log[j] = "send"
    /\ \A k \in (j + 1)..Len(log) : log[k] # "send"

\* C8 as stated: a valid frame written to the line after a framing or
\* checksum error has been found (in a segment built from payload 1, which
\* holds no 0xAA) is published once all bytes are read, and the flag stays
\* set.
C8_ErrorsNeverLoseFrames ==
  (Len(script) = 2 /\ script[1].p = 1 /\ ErrorBeforeLastSend /\ AllRead /\ Resting) =>
    (is_running /\ LastRecord \in {pubs[k] : k \in 1..Len(pubs)})

\* ---------------------------------------------- the claims on the lifecycle
\* The log holds an entry a before an entry b.
Before(a, b) ==
  \E i \in 1..Len(log), j \in 1..Len(log) : i < j /\ log[i] = a /\ log[j] = b

\* C11: in whatever lifecycle state stop() is called (before any start(),
\* after a failed start(), while the loop runs, after the loop has ended on a
\* transport error, a second time), it returns, and once it has returned the
\* port is not open, the flag is cleared and every loop has ended.
C11_StopAlwaysSafe ==
  /\ [](stopped => (ser # "open" /\ ~is_running /\ AllDone))
  /\ (caller.pc \in {"join", "close"}) ~> (caller.pc = "idle" /\ stopped)

\* The loop ended on a transport error, then stop() was called for the first
\* time, and a second stop() has returned too: the port is closed.
C11_Witness ==
  /\ stopped
  /\ caller.pc = "idle"
  /\ calls.stops = 2
  /\ ser = "closed"
  /\ Before("fatal", "exit")
  /\ \E j \in 1..Len(log) :
       /\ log[j] = "exit"
       /\ \A i \in 1..j : log[i] # "stop"

\* The log holds an entry e.
InLog(e) == \E i \in 1..Len(log) : log[i] = e

\* C12: once a read has raised SerialException, in whatever phase, the flag
\* is cleared and stays cleared, the loop is at its while test or has
\* returned, and from then on no byte is read, nothing is stored and no
\* other loop is started.
C12_TransportErrorEndsLoop ==
  /\ [](InLog("fatal") =>
          /\ ~is_running
          /\ \A t \in Threads : loops[t].pc \in {"head", "done"})
  /\ [][InLog("fatal") =>
          /\ ReadCount' = ReadCount
          /\ pubs' = pubs
          /\ latest_data' = latest_data
          /\ Len(loops') = Len(loops)]_vars

\* The body read raised after the start marker and the length byte had been
\* read: the loop has returned with the 19 bytes of the body left unread.
C12_Witness ==
  /\ InLog("fatal")
  /\ Len(loops) = 1
  /\ loops[1].pc = "done"
  /\ loops[1].sync_state = 2
  /\ ReadCount = Len(SOF) + 1
  /\ Len(wire) = EXPECTED_PACKET_LEN + Len(EOF)
  /\ ~is_running
  /\ pubs = <<>>

\* How a frame attempt can end: a byte that is not the second marker byte,
\* no or a wrong length byte, a short body, a wrong end marker, a checksum
\* mismatch, a stored record, an exception that is not a SerialException.
Outcomes == {"sof2", "nolen", "len", "short", "eof", "crc", "ok", "error"}

\* The step ends a frame attempt of loop t: it logs an outcome, or it
\* stores the record of the attempt logged "ok".
EndsAttempt(t) ==
  \/ Len(log') = Len(log) + 1 /\ log'[Len(log')] \in Outcomes \ {"ok"}
  \/ loops[t].pc = "store"

\* C13 as stated: every step that ends a frame attempt, with whatever
\* outcome, leaves the loop at its while test awaiting the first start byte
\* (sync_state = 0).
C13_AttemptEndsInInitialPhase ==
  [][\A t \in Threads :
       (loops'[t] # loops[t] /\ EndsAttempt(t)) =>
         (loops'[t].pc = "head" /\ loops'[t].sync_state = 0)]_vars

\* ------------------------------------------------ more claims on the line
\* A stray 0xAA, then the valid frame of payload 1 (which holds no 0xAA, and
\* whose checksum is not 0xAA): the stream 0xAA 0xAA 0x55 0x11 ...
StrayThenFrame == <<Seg("noise", 1, SOF[1]), Seg("valid", 1, 0)>>

\* Both segments were on the line before the loop failed the second-marker
\* check for the first time: the byte it failed on is the frame's own 0xAA.
DroppedFrameStart ==
  /\ script = StrayThenFrame
  /\ Len(log) >= 3
  /\ SubSeq(log, 1, 3) = <<"send", "send", "sof2">>

\* C14: a read in state 1 that returns nothing or a byte other than 0x55
\* consumes that byte and puts the loop back in state 0 at its while test;
\* and when the byte dropped in the stream 0xAA 0xAA 0x55 ... is the second
\* 0xAA, the loop never reaches state 2 for the frame that starts there: every
\* attempt logged is a failed second-marker check and nothing is stored.
C14_FailedSecondByteDropped ==
  /\ [][\A t \in Threads :
          (/\ loops[t].pc = "try"
           /\ loops[t].sync_state = 1
           /\ loops'[t] # loops[t]
           /\ (wire = <<>> \/ wire[1] # SOF[2])) =>
            /\ loops'[t].pc = "head"
            /\ loops'[t].sync_state = 0
            /\ wire' = (IF wire = <<>> THEN <<>> ELSE Tail(wire))]_vars
  /\ [](DroppedFrameStart =>
          /\ pubs = <<>>
          /\ \A t \in Threads : loops[t].sync_state # 2
          /\ \A i \in 1..Len(Attempts) : Attempts[i] = "sof2")

\* The second 0xAA of 0xAA 0xAA 0x55 was dropped, every byte of the frame
\* behind it has been read and nothing was stored.
C14_Witness ==
  /\ DroppedFrameStart
  /\ AllRead
  /\ Resting
  /\ pubs = <<>>

\* ------------------------------------------------------- claims on shutdown
\* Reads one iteration of _read_loop makes at most: a marker byte, the length
\* byte and the body (lines 116, 125, 138).
ReadsPerIteration == 3

\* C15 as stated: a loop makes at most one read after the flag was cleared.
C15_OneReadAfterStop == \A t \in Threads : loops[t].late <= 1

\* C15, amended: the flag is tested only at the while test of line 108.  A
\* loop that finds it cleared there returns; a loop inside an iteration when
\* stop() clears the flag finishes that iteration first, which takes up to
\* three reads (second marker byte, length byte, body) and may store a
\* record; and once stop() has cleared the flag the loop returns and stop()
\* returns.
C15_StopWaitsForOneIteration ==
  /\ [](\A t \in Threads : loops[t].late <= ReadsPerIteration)
  /\ [][\A t \in Threads :
          (loops[t].pc = "head" /\ ~is_running /\ loops'[t] # loops[t]) =>
            loops'[t].pc = "done"]_vars
  /\ [][\A t \in Threads :
          (loops[t].pc # "head" /\ loops'[t].pc = "done") => loops'[t] = loops[t]]_vars
  /\ (caller.pc = "join") ~> (AllDone /\ stopped)

\* stop() was entered while the loop was about to read the second marker
\* byte; the loop read it, the length byte and the body, stored the record,
\* and returned; stop() has returned.
C15_Witness ==
  /\ stopped
  /\ Len(loops) = 1
  /\ loops[1].pc = "done"
  /\ loops[1].late = ReadsPerIteration
  /\ Before("stop", "ok")
  /\ Len(pubs) = 1

\* ---------------------------------------------- claims on a second start()
\* The decode loops that have not returned.
Alive == {t \in Threads : loops[t].pc # "done"}

\* C16 as stated: at no time is more than one decode loop alive; a start()
\* called while a loop is alive returns False, starts no loop and leaves the
\* port and its input buffer alone; and the port changes (open, close) only
\* while no loop is alive.
C16_OneLoopAtATime ==
  /\ [](Cardinality(Alive) <= 1)
  /\ [][(calls'.starts # calls.starts /\ Alive # {}) =>
          /\ start_ret' = <<FALSE>>
          /\ loops' = loops
          /\ ser' = ser
          /\ wire' = wire]_vars
  /\ [][ser' # ser => Alive = {}]_vars

\* ---------------------------------------------------- claims on the slot
\* The record of the script's first segment, a valid frame.
FirstRecord == Unpack(Payload(script[1].p))

\* The step logs a frame attempt that failed a check.
LogsFailure ==
  /\ Len(log') = Len(log) + 1
  /\ log'[Len(log')] \in Outcomes \ {"ok", "error"}

\* C17: the slot becomes a record only in the store step of a decode loop,
\* which stores the record that loop decoded from a frame that passed every
\* check; the only record ever stored is that of the one valid frame sent,
\* stored once; a step that ends an attempt in a failed check changes neither
\* the slot nor what was stored; so the record stays in the slot until a call
\* takes it, whatever fails after it.
C17_SlotSetOnlyByValidFrame ==
  /\ [][(latest_data' # latest_data /\ latest_data' # None) =>
          \E t \in Threads :
            /\ loops[t].pc = "store"
            /\ loops[t].sync_state = 2
            /\ latest_data' = loops[t].unpacked_data]_vars
  /\ [][LogsFailure =>
          /\ latest_data' = latest_data
          /\ pubs' = pubs
          /\ \A t \in Threads : loops'[t].unpacked_data = None]_vars
  /\ [](/\ OnlyRecord(FirstRecord)
        /\ Handed = Len(pubs)
        /\ (pubs # <<>> /\ \A i \in 1..Len(rets) : ~Returned(i) /\ ~InGet) =>
             latest_data = <<FirstRecord>>)

\* The valid frame's record was stored, the frame after it failed its end
\* marker check with every byte read, and the record, not yet taken, is
\* still in the slot.
C17_Witness ==
  /\ script \in ThenFailing
  /\ script[2].kind = "badeof"
  /\ Attempts = <<"ok", "eof">>
  /\ AllRead
  /\ rets = <<>>
  /\ latest_data = <<FirstRecord>>

\* --------------------------------------------------- claims on the codec
\* C18: for every payload the table-driven checksum equals the CRC-8 computed
\* bit by bit (polynomial 0x07, start value 0, most significant bit first, no
\* final XOR); for the payloads 0x00 ... 0x00 b this is table[b] for every
\* byte b.  So the loop's checksum comparison passes, and the frame is stored,
\* exactly when the frame carries the bitwise CRC-8 of its payload.
C18_TableIsCrc8 ==
  script \in CrcFrames =>
    LET payload == script[1].p
        intact == script[1].arg = 0
    IN /\ calculate_crc8(payload) = BitCrc(payload)
       /\ calculate_crc8(<<>>) = 0
       /\ payload[1] = 0 =>
            calculate_crc8(payload) = CRC8_TABLE[payload[PAYLOAD_SIZE] + 1]
       /\ Attempts # <<>> => Attempts[1] = (IF intact THEN "ok" ELSE "crc")
       /\ pubs # <<>> => (intact /\ pubs = <<Unpack(payload)>>)
       /\ (AllRead /\ Resting /\ intact) => pubs = <<Unpack(payload)>>

\* The frame with payload 0x00 ... 0x00 0xFF and checksum 0xF3, the bitwise
\* CRC-8 of 0xFF and the last entry of the table, was stored.
C18_Witness ==
  /\ script = <<Seg("sum", Zeros \o <<255>>, 0)>>
  /\ CRC8_TABLE[256] = 243
  /\ Attempts = <<"ok">>
  /\ Len(pubs) = 1

\* The sender's side of the layout: a 16-bit value as two bytes, low byte
\* first; a 64-bit value (base-1000000 limbs, least significant first) as
\* eight bytes, low byte first, by repeated division by 256.
PackH(v) == <<v % 256, v \div 256>>

\* limbs[1..i] divided by d, with rem carried in from the limbs above:
\* the quotient's limbs and the remainder.
RECURSIVE DivFrom(_, _, _, _)
DivFrom(limbs, d, i, rem) ==
  IF i = 0 THEN [q |-> <<>>, r |-> rem]
  ELSE LET cur == rem * LimbBase + limbs[i]
           rest == DivFrom(limbs, d, i - 1, cur % d)
       IN [q |-> Append(rest.q, cur \div d), r |-> rest.r]

RECURSIVE PackQFrom(_, _)
PackQFrom(limbs, n) ==
  IF n = 0 THEN <<>>
  ELSE LET dr == DivFrom(limbs, 256, Len(limbs), 0)
       IN <<dr.r>> \o PackQFrom(dr.q, n - 1)

PackQ(limbs) == PackQFrom(limbs, 8)

Pack(rec) ==
  PackH(rec.x) \o PackH(rec.y) \o PackH(rec.w) \o PackH(rec.h) \o PackQ(rec.timestamp)

\* rec has the five fields, each in the range of its type.
WellFormed(rec) ==
  /\ DOMAIN rec = {"x", "y", "w", "h", "timestamp"}
  /\ \A f \in {"x", "y", "w", "h"} : rec[f] \in 0..65535
  /\ Len(rec.timestamp) = 4
  /\ \A i \in 1..4 : rec.timestamp[i] \in 0..(LimbBase - 1)

\* x=100, y=200, w=50, h=60, timestamp=1700000000000.
ExampleRecord ==
  [x |-> 100, y |-> 200, w |-> 50, h |-> 60, timestamp |-> <<0, 700000, 1, 0>>]

\* C19: every record stored or returned is the little-endian reading of the
\* frame's 16 payload bytes with no padding: packing its four 16-bit fields
\* and its 64-bit timestamp low byte first, one after the other, gives back
\* exactly the payload bytes; the frame of the example decodes to the
\* example's values; and the length byte expected is 16 + 1 = 17.
C19_LittleEndianLayout ==
  script \in CodecFrames =>
    /\ EXPECTED_PACKET_LEN = 17
    /\ Len(script[1].p) = PAYLOAD_SIZE
    /\ \A k \in 1..Len(pubs) :
         /\ WellFormed(pubs[k])
         /\ Pack(pubs[k]) = script[1].p
         /\ script[1].p = Pack(ExampleRecord) => pubs[k] = ExampleRecord
    /\ \A i \in 1..Len(rets) :
         Returned(i) => Pack(rets[i].val[1]) = script[1].p
    /\ (AllRead /\ Resting) => Len(pubs) = 1

\* The frame of the example was decoded and a call returned the example's
\* values.
C19_Witness ==
  /\ script = <<Seg("sum", Pack(ExampleRecord), 0)>>
  /\ pubs = <<ExampleRecord>>
  /\ \E i \in 1..Len(rets) : rets[i].val = <<ExampleRecord>>

\* ------------------------------------------------ claims on frame trains
\* The record of the script's k-th segment, a valid frame.
RecordOf(k) == Unpack(Payload(script[k].p))

\* C20: with valid frames sent back to back, the records stored are those of
\* the frames in stream order, every attempt ends "ok", whenever the loop
\* awaits a first start byte it has read exactly 22 bytes per record stored,
\* and once every byte is read every frame's record has been stored; and if
\* each call returns after exactly one more frame was stored (call i with i
\* frames stored), call i returns the record of frame i.
C20_FramesInOrder ==
  script \in Trains =>
    /\ Len(pubs) <= Len(script)
    /\ \A k \in 1..Len(pubs) : pubs[k] = RecordOf(k)
    /\ \A i \in 1..Len(Attempts) : Attempts[i] = "ok"
    /\ Resting => ReadCount = FrameLen * Len(pubs)
    /\ Publishing => ReadCount = FrameLen * (Len(pubs) + 1)
    /\ (AllRead /\ Resting) => Len(pubs) = Len(script)
    /\ (\A i \in 1..Len(rets) : rets[i].seen = i) =>
         (\A i \in 1..Len(rets) : rets[i].val = <<RecordOf(i)>>)

\* A train that starts with two different frames, a call after each frame:
\* the calls returned the records in stream order.
C20_Witness ==
  /\ script \in Trains
  /\ script[1].p # script[2].p
  /\ AllRead
  /\ Len(rets) = Len(script)
  /\ \A i \in 1..Len(rets) :
       rets[i] = [val |-> <<RecordOf(i)>>, pub |-> i, seen |-> i]

====
